---- MODULE Spec2Model ----
(***************************************************************************)
(* The TikZEditor component of src/components/TikZExample.jsx as a state   *)
(* machine: the four useState cells, the localStorage entry               *)
(* 'tikzTemplates', the two effects and the five handlers.                 *)
(*                                                                         *)
(* A JavaScript string is the sequence of its characters, each a          *)
(* one-character TLA+ string.  A string cell that may hold null is a       *)
(* record [type, chars].  An object is the sequence of its own enumerable  *)
(* properties in insertion order.  The text stored in localStorage is the  *)
(* sequence of its JSON tokens, a string token holding the escaped text    *)
(* between its quotes.                                                     *)
(***************************************************************************)
EXTENDS Integers, Sequences, FiniteSets, TLC

(***************************************************************************)
(* Literals of the source                                                  *)
(***************************************************************************)
\* the property name 'Rectangle with Circle'
RectangleWithCircleName ==
  << "R", "e", "c", "t", "a", "n", "g", "l", "e", " ", "w", "i", "t", "h", " ", "C",
     "i", "r", "c", "l", "e" >>

\* the source text of defaultTemplates['Rectangle with Circle']
RectangleWithCircleCode ==
  << "\n",
     " ", " ", " ", " ", "\\", "d", "o", "c", "u", "m", "e", "n", "t", "c", "l", "a",
     "s", "s", "{", "s", "t", "a", "n", "d", "a", "l", "o", "n", "e", "}", "\n",
     " ", " ", " ", " ", "\\", "u", "s", "e", "p", "a", "c", "k", "a", "g", "e", "{",
     "t", "i", "k", "z", "}", "\n",
     " ", " ", " ", " ", "\\", "b", "e", "g", "i", "n", "{", "d", "o", "c", "u", "m",
     "e", "n", "t", "}", "\n",
     " ", " ", " ", " ", "\\", "b", "e", "g", "i", "n", "{", "t", "i", "k", "z", "p",
     "i", "c", "t", "u", "r", "e", "}", "\n",
     " ", " ", " ", " ", " ", " ", "\\", "d", "r", "a", "w", "[", "f", "i", "l", "l",
     "=", "b", "l", "u", "e", "!", "2", "0", "]", " ", "(", "0", ",", "0", ")", " ",
     "r", "e", "c", "t", "a", "n", "g", "l", "e", " ", "(", "4", ",", "2", ")", ";",
     "\n",
     " ", " ", " ", " ", " ", " ", "\\", "d", "r", "a", "w", "[", "f", "i", "l", "l",
     "=", "r", "e", "d", "]", " ", "(", "2", ",", "1", ")", " ", "c", "i", "r", "c",
     "l", "e", " ", "(", "0", ".", "5", "c", "m", ")", ";", "\n",
     " ", " ", " ", " ", " ", " ", "\\", "n", "o", "d", "e", " ", "a", "t", " ", "(",
     "2", ",", " ", "1", ")", " ", "{", "C", "i", "r", "c", "l", "e", "}", ";", "\n",
     " ", " ", " ", " ", "\\", "e", "n", "d", "{", "t", "i", "k", "z", "p", "i", "c",
     "t", "u", "r", "e", "}", "\n",
     " ", " ", " ", " ", "\\", "e", "n", "d", "{", "d", "o", "c", "u", "m", "e", "n",
     "t", "}", "\n",
     " ", " " >>

\* the property name 'Bar Graph'
BarGraphName ==
  << "B", "a", "r", " ", "G", "r", "a", "p", "h" >>

\* the source text of defaultTemplates['Bar Graph']
BarGraphCode ==
  << "\n",
     " ", " ", " ", " ", "\\", "d", "o", "c", "u", "m", "e", "n", "t", "c", "l", "a",
     "s", "s", "{", "s", "t", "a", "n", "d", "a", "l", "o", "n", "e", "}", "\n",
     " ", " ", " ", " ", "\\", "u", "s", "e", "p", "a", "c", "k", "a", "g", "e", "{",
     "t", "i", "k", "z", "}", "\n",
     " ", " ", " ", " ", "\\", "b", "e", "g", "i", "n", "{", "d", "o", "c", "u", "m",
     "e", "n", "t", "}", "\n",
     " ", " ", " ", " ", "\\", "b", "e", "g", "i", "n", "{", "t", "i", "k", "z", "p",
     "i", "c", "t", "u", "r", "e", "}", "\n",
     " ", " ", " ", " ", " ", " ", "\\", "d", "r", "a", "w", "[", "-", ">", "]", " ",
     "(", "0", ",", "0", ")", " ", "-", "-", " ", "(", "6", ",", "0", ")", " ", "n",
     "o", "d", "e", "[", "r", "i", "g", "h", "t", "]", " ", "{", "X", "}", ";", "\n",
     " ", " ", " ", " ", " ", " ", "\\", "d", "r", "a", "w", "[", "-", ">", "]", " ",
     "(", "0", ",", "0", ")", " ", "-", "-", " ", "(", "0", ",", "4", ")", " ", "n",
     "o", "d", "e", "[", "a", "b", "o", "v", "e", "]", " ", "{", "Y", "}", ";", "\n",
     " ", " ", " ", " ", " ", " ", "\\", "f", "o", "r", "e", "a", "c", "h", " ", "\\",
     "x", "/", "\\", "y", " ", "i", "n", " ", "{", "1", "/", "2", ",", " ", "2", "/",
     "3", ",", " ", "3", "/", "1", ".", "5", ",", " ", "4", "/", "3", ".", "5", "}",
     "\n",
     " ", " ", " ", " ", " ", " ", " ", " ", "\\", "d", "r", "a", "w", "[", "f", "i",
     "l", "l", "=", "b", "l", "u", "e", "!", "5", "0", "]", " ", "(", "\\", "x", "-",
     "0", ".", "2", ",", "0", ")", " ", "b", "a", "r", " ", "(", "\\", "x", "+", "0",
     ".", "2", ",", "\\", "y", ")", ";", "\n",
     " ", " ", " ", " ", "\\", "e", "n", "d", "{", "t", "i", "k", "z", "p", "i", "c",
     "t", "u", "r", "e", "}", "\n",
     " ", " ", " ", " ", "\\", "e", "n", "d", "{", "d", "o", "c", "u", "m", "e", "n",
     "t", "}", "\n",
     " ", " " >>

\* the property name 'Organizational Chart'
OrganizationalChartName ==
  << "O", "r", "g", "a", "n", "i", "z", "a", "t", "i", "o", "n", "a", "l", " ", "C",
     "h", "a", "r", "t" >>

\* the source text of defaultTemplates['Organizational Chart']
OrganizationalChartCode ==
  << "\n",
     " ", " ", " ", " ", "\\", "d", "o", "c", "u", "m", "e", "n", "t", "c", "l", "a",
     "s", "s", "{", "s", "t", "a", "n", "d", "a", "l", "o", "n", "e", "}", "\n",
     " ", " ", " ", " ", "\\", "u", "s", "e", "p", "a", "c", "k", "a", "g", "e", "{",
     "t", "i", "k", "z", "}", "\n",
     " ", " ", " ", " ", "\\", "u", "s", "e", "t", "i", "k", "z", "l", "i", "b", "r",
     "a", "r", "y", "{", "m", "i", "n", "d", "m", "a", "p", ",", "t", "r", "e", "e",
     "s", "}", "\n",
     " ", " ", " ", " ", "\\", "b", "e", "g", "i", "n", "{", "d", "o", "c", "u", "m",
     "e", "n", "t", "}", "\n",
     " ", " ", " ", " ", "\\", "b", "e", "g", "i", "n", "{", "t", "i", "k", "z", "p",
     "i", "c", "t", "u", "r", "e", "}", "\n",
     " ", " ", " ", " ", " ", " ", "\\", "n", "o", "d", "e", "[", "c", "o", "n", "c",
     "e", "p", "t", "]", " ", "{", "C", "o", "m", "p", "a", "n", "y", "}", "\n",
     " ", " ", " ", " ", " ", " ", " ", " ", "c", "h", "i", "l", "d", "[", "c", "o",
     "n", "c", "e", "p", "t", "]", " ", "{", "n", "o", "d", "e", " ", "{", "H", "R",
     "}", "}", "\n",
     " ", " ", " ", " ", " ", " ", " ", " ", "c", "h", "i", "l", "d", "[", "c", "o",
     "n", "c", "e", "p", "t", "]", " ", "{", "n", "o", "d", "e", " ", "{", "T", "e",
     "c", "h", "}", "}", "\n",
     " ", " ", " ", " ", " ", " ", " ", " ", "c", "h", "i", "l", "d", "[", "c", "o",
     "n", "c", "e", "p", "t", "]", " ", "{", "n", "o", "d", "e", " ", "{", "M", "a",
     "r", "k", "e", "t", "i", "n", "g", "}", "}", ";", "\n",
     " ", " ", " ", " ", "\\", "e", "n", "d", "{", "t", "i", "k", "z", "p", "i", "c",
     "t", "u", "r", "e", "}", "\n",
     " ", " ", " ", " ", "\\", "e", "n", "d", "{", "d", "o", "c", "u", "m", "e", "n",
     "t", "}", "\n",
     " ", " " >>

\* the fixed markup set when the code includes 'rectangle'
RectangleSVG ==
  << "<", "s", "v", "g", " ", "x", "m", "l", "n", "s", "=", "\"", "h", "t", "t", "p",
     ":", "/", "/", "w", "w", "w", ".", "w", "3", ".", "o", "r", "g", "/", "2", "0",
     "0", "0", "/", "s", "v", "g", "\"", " ", "w", "i", "d", "t", "h", "=", "\"", "4",
     "0", "0", "\"", " ", "h", "e", "i", "g", "h", "t", "=", "\"", "2", "0", "0", "\"",
     ">", "\n",
     " ", " ", " ", " ", " ", " ", " ", " ", " ", " ", "<", "r", "e", "c", "t", " ",
     "x", "=", "\"", "5", "0", "\"", " ", "y", "=", "\"", "5", "0", "\"", " ", "w", "i",
     "d", "t", "h", "=", "\"", "3", "0", "0", "\"", " ", "h", "e", "i", "g", "h", "t",
     "=", "\"", "1", "0", "0", "\"", " ", "f", "i", "l", "l", "=", "\"", "l", "i", "g",
     "h", "t", "b", "l", "u", "e", "\"", " ", "/", ">", "\n",
     " ", " ", " ", " ", " ", " ", " ", " ", " ", " ", "<", "c", "i", "r", "c", "l",
     "e", " ", "c", "x", "=", "\"", "2", "0", "0", "\"", " ", "c", "y", "=", "\"", "1",
     "0", "0", "\"", " ", "r", "=", "\"", "5", "0", "\"", " ", "f", "i", "l", "l", "=",
     "\"", "r", "e", "d", "\"", " ", "/", ">", "\n",
     " ", " ", " ", " ", " ", " ", " ", " ", " ", " ", "<", "t", "e", "x", "t", " ",
     "x", "=", "\"", "2", "0", "0", "\"", " ", "y", "=", "\"", "1", "0", "5", "\"", " ",
     "f", "o", "n", "t", "-", "s", "i", "z", "e", "=", "\"", "2", "0", "\"", " ", "t",
     "e", "x", "t", "-", "a", "n", "c", "h", "o", "r", "=", "\"", "m", "i", "d", "d",
     "l", "e", "\"", " ", "f", "i", "l", "l", "=", "\"", "b", "l", "a", "c", "k", "\"",
     ">", "C", "i", "r", "c", "l", "e", "<", "/", "t", "e", "x", "t", ">", "\n",
     " ", " ", " ", " ", " ", " ", " ", " ", "<", "/", "s", "v", "g", ">" >>

\* the fixed markup set when the code includes 'bar'
BarSVG ==
  << "<", "s", "v", "g", " ", "x", "m", "l", "n", "s", "=", "\"", "h", "t", "t", "p",
     ":", "/", "/", "w", "w", "w", ".", "w", "3", ".", "o", "r", "g", "/", "2", "0",
     "0", "0", "/", "s", "v", "g", "\"", " ", "w", "i", "d", "t", "h", "=", "\"", "4",
     "0", "0", "\"", " ", "h", "e", "i", "g", "h", "t", "=", "\"", "2", "0", "0", "\"",
     ">", "\n",
     " ", " ", " ", " ", " ", " ", " ", " ", " ", " ", "<", "l", "i", "n", "e", " ",
     "x", "1", "=", "\"", "5", "0", "\"", " ", "y", "1", "=", "\"", "1", "5", "0", "\"",
     " ", "x", "2", "=", "\"", "3", "5", "0", "\"", " ", "y", "2", "=", "\"", "1", "5",
     "0", "\"", " ", "s", "t", "r", "o", "k", "e", "=", "\"", "b", "l", "a", "c", "k",
     "\"", " ", "/", ">", "\n",
     " ", " ", " ", " ", " ", " ", " ", " ", " ", " ", "<", "l", "i", "n", "e", " ",
     "x", "1", "=", "\"", "5", "0", "\"", " ", "y", "1", "=", "\"", "1", "5", "0", "\"",
     " ", "x", "2", "=", "\"", "5", "0", "\"", " ", "y", "2", "=", "\"", "5", "0", "\"",
     " ", "s", "t", "r", "o", "k", "e", "=", "\"", "b", "l", "a", "c", "k", "\"", " ",
     "/", ">", "\n",
     " ", " ", " ", " ", " ", " ", " ", " ", " ", " ", "<", "r", "e", "c", "t", " ",
     "x", "=", "\"", "7", "0", "\"", " ", "y", "=", "\"", "1", "0", "0", "\"", " ", "w",
     "i", "d", "t", "h", "=", "\"", "3", "0", "\"", " ", "h", "e", "i", "g", "h", "t",
     "=", "\"", "5", "0", "\"", " ", "f", "i", "l", "l", "=", "\"", "b", "l", "u", "e",
     "\"", " ", "/", ">", "\n",
     " ", " ", " ", " ", " ", " ", " ", " ", " ", " ", "<", "r", "e", "c", "t", " ",
     "x", "=", "\"", "1", "2", "0", "\"", " ", "y", "=", "\"", "8", "0", "\"", " ", "w",
     "i", "d", "t", "h", "=", "\"", "3", "0", "\"", " ", "h", "e", "i", "g", "h", "t",
     "=", "\"", "7", "0", "\"", " ", "f", "i", "l", "l", "=", "\"", "b", "l", "u", "e",
     "\"", " ", "/", ">", "\n",
     " ", " ", " ", " ", " ", " ", " ", " ", " ", " ", "<", "r", "e", "c", "t", " ",
     "x", "=", "\"", "1", "7", "0", "\"", " ", "y", "=", "\"", "1", "1", "0", "\"", " ",
     "w", "i", "d", "t", "h", "=", "\"", "3", "0", "\"", " ", "h", "e", "i", "g", "h",
     "t", "=", "\"", "4", "0", "\"", " ", "f", "i", "l", "l", "=", "\"", "b", "l", "u",
     "e", "\"", " ", "/", ">", "\n",
     " ", " ", " ", " ", " ", " ", " ", " ", " ", " ", "<", "t", "e", "x", "t", " ",
     "x", "=", "\"", "2", "0", "0", "\"", " ", "y", "=", "\"", "1", "7", "0", "\"", " ",
     "f", "o", "n", "t", "-", "s", "i", "z", "e", "=", "\"", "1", "2", "\"", " ", "t",
     "e", "x", "t", "-", "a", "n", "c", "h", "o", "r", "=", "\"", "m", "i", "d", "d",
     "l", "e", "\"", ">", "B", "a", "r", " ", "G", "r", "a", "p", "h", "<", "/", "t",
     "e", "x", "t", ">", "\n",
     " ", " ", " ", " ", " ", " ", " ", " ", "<", "/", "s", "v", "g", ">" >>

\* the fixed markup set when the code includes 'mindmap'
MindmapSVG ==
  << "<", "s", "v", "g", " ", "x", "m", "l", "n", "s", "=", "\"", "h", "t", "t", "p",
     ":", "/", "/", "w", "w", "w", ".", "w", "3", ".", "o", "r", "g", "/", "2", "0",
     "0", "0", "/", "s", "v", "g", "\"", " ", "w", "i", "d", "t", "h", "=", "\"", "4",
     "0", "0", "\"", " ", "h", "e", "i", "g", "h", "t", "=", "\"", "2", "0", "0", "\"",
     ">", "\n",
     " ", " ", " ", " ", " ", " ", " ", " ", " ", " ", "<", "c", "i", "r", "c", "l",
     "e", " ", "c", "x", "=", "\"", "2", "0", "0", "\"", " ", "c", "y", "=", "\"", "1",
     "0", "0", "\"", " ", "r", "=", "\"", "3", "0", "\"", " ", "f", "i", "l", "l", "=",
     "\"", "g", "r", "e", "e", "n", "\"", " ", "/", ">", "\n",
     " ", " ", " ", " ", " ", " ", " ", " ", " ", " ", "<", "t", "e", "x", "t", " ",
     "x", "=", "\"", "2", "0", "0", "\"", " ", "y", "=", "\"", "1", "0", "5", "\"", " ",
     "f", "o", "n", "t", "-", "s", "i", "z", "e", "=", "\"", "1", "2", "\"", " ", "t",
     "e", "x", "t", "-", "a", "n", "c", "h", "o", "r", "=", "\"", "m", "i", "d", "d",
     "l", "e", "\"", " ", "f", "i", "l", "l", "=", "\"", "w", "h", "i", "t", "e", "\"",
     ">", "C", "o", "m", "p", "a", "n", "y", "<", "/", "t", "e", "x", "t", ">", "\n",
     " ", " ", " ", " ", " ", " ", " ", " ", " ", " ", "<", "l", "i", "n", "e", " ",
     "x", "1", "=", "\"", "2", "0", "0", "\"", " ", "y", "1", "=", "\"", "1", "0", "0",
     "\"", " ", "x", "2", "=", "\"", "1", "5", "0", "\"", " ", "y", "2", "=", "\"", "5",
     "0", "\"", " ", "s", "t", "r", "o", "k", "e", "=", "\"", "b", "l", "a", "c", "k",
     "\"", " ", "/", ">", "\n",
     " ", " ", " ", " ", " ", " ", " ", " ", " ", " ", "<", "l", "i", "n", "e", " ",
     "x", "1", "=", "\"", "2", "0", "0", "\"", " ", "y", "1", "=", "\"", "1", "0", "0",
     "\"", " ", "x", "2", "=", "\"", "2", "5", "0", "\"", " ", "y", "2", "=", "\"", "5",
     "0", "\"", " ", "s", "t", "r", "o", "k", "e", "=", "\"", "b", "l", "a", "c", "k",
     "\"", " ", "/", ">", "\n",
     " ", " ", " ", " ", " ", " ", " ", " ", " ", " ", "<", "l", "i", "n", "e", " ",
     "x", "1", "=", "\"", "2", "0", "0", "\"", " ", "y", "1", "=", "\"", "1", "0", "0",
     "\"", " ", "x", "2", "=", "\"", "2", "0", "0", "\"", " ", "y", "2", "=", "\"", "1",
     "5", "0", "\"", " ", "s", "t", "r", "o", "k", "e", "=", "\"", "b", "l", "a", "c",
     "k", "\"", " ", "/", ">", "\n",
     " ", " ", " ", " ", " ", " ", " ", " ", " ", " ", "<", "t", "e", "x", "t", " ",
     "x", "=", "\"", "1", "5", "0", "\"", " ", "y", "=", "\"", "4", "5", "\"", " ", "f",
     "o", "n", "t", "-", "s", "i", "z", "e", "=", "\"", "1", "0", "\"", " ", "t", "e",
     "x", "t", "-", "a", "n", "c", "h", "o", "r", "=", "\"", "m", "i", "d", "d", "l",
     "e", "\"", ">", "H", "R", "<", "/", "t", "e", "x", "t", ">", "\n",
     " ", " ", " ", " ", " ", " ", " ", " ", " ", " ", "<", "t", "e", "x", "t", " ",
     "x", "=", "\"", "2", "5", "0", "\"", " ", "y", "=", "\"", "4", "5", "\"", " ", "f",
     "o", "n", "t", "-", "s", "i", "z", "e", "=", "\"", "1", "0", "\"", " ", "t", "e",
     "x", "t", "-", "a", "n", "c", "h", "o", "r", "=", "\"", "m", "i", "d", "d", "l",
     "e", "\"", ">", "T", "e", "c", "h", "<", "/", "t", "e", "x", "t", ">", "\n",
     " ", " ", " ", " ", " ", " ", " ", " ", " ", " ", "<", "t", "e", "x", "t", " ",
     "x", "=", "\"", "2", "0", "0", "\"", " ", "y", "=", "\"", "1", "6", "5", "\"", " ",
     "f", "o", "n", "t", "-", "s", "i", "z", "e", "=", "\"", "1", "0", "\"", " ", "t",
     "e", "x", "t", "-", "a", "n", "c", "h", "o", "r", "=", "\"", "m", "i", "d", "d",
     "l", "e", "\"", ">", "M", "a", "r", "k", "e", "t", "i", "n", "g", "<", "/", "t",
     "e", "x", "t", ">", "\n",
     " ", " ", " ", " ", " ", " ", " ", " ", "<", "/", "s", "v", "g", ">" >>

\* the literal '\\begin{tikzpicture}' of validateTikZSyntax
BeginMarker ==
  << "\\", "b", "e", "g", "i", "n", "{", "t", "i", "k", "z", "p", "i", "c", "t", "u",
     "r", "e", "}" >>

\* the literal '\\end{tikzpicture}' of validateTikZSyntax
EndMarker ==
  << "\\", "e", "n", "d", "{", "t", "i", "k", "z", "p", "i", "c", "t", "u", "r", "e",
     "}" >>

\* the first message of validateTikZSyntax
MissingBegin ==
  << "M", "i", "s", "s", "i", "n", "g", " ", "\\", "b", "e", "g", "i", "n", "{", "t",
     "i", "k", "z", "p", "i", "c", "t", "u", "r", "e", "}" >>

\* the second message of validateTikZSyntax
MissingEnd ==
  << "M", "i", "s", "s", "i", "n", "g", " ", "\\", "e", "n", "d", "{", "t", "i", "k",
     "z", "p", "i", "c", "t", "u", "r", "e", "}" >>

\* the separator of errors.join(', ')
CommaSpace ==
  << ",", " " >>

\* the keyword of the first branch of renderTikZ
KwRectangle ==
  << "r", "e", "c", "t", "a", "n", "g", "l", "e" >>

\* the keyword of the second branch of renderTikZ
KwBar ==
  << "b", "a", "r" >>

\* the keyword of the third branch of renderTikZ
KwMindmap ==
  << "m", "i", "n", "d", "m", "a", "p" >>

\* the opening tag of the fallback markup
PreOpen ==
  << "<", "p", "r", "e", ">" >>

\* the closing tag of the fallback markup
PreClose ==
  << "<", "/", "p", "r", "e", ">" >>

\* the file name passed to FileDownload
DiagramTex ==
  << "d", "i", "a", "g", "r", "a", "m", ".", "t", "e", "x" >>

(***************************************************************************)
(* Strings                                                                 *)
(***************************************************************************)
\* String.prototype.includes: k occurs in s as a contiguous run of
\* characters, at any position, case-sensitively
Includes(s, k) ==
  \E i \in 0..(Len(s) - Len(k)) : SubSeq(s, i + 1, i + Len(k)) = k

\* Array.prototype.join over an array of strings
RECURSIVE Join(_, _)
Join(arr, sep) ==
  IF arr = << >> THEN << >>
  ELSE IF Len(arr) = 1 THEN arr[1]
  ELSE arr[1] \o sep \o Join(Tail(arr), sep)

\* the values of a cell that holds null or a string
Null == [type |-> "null", chars |-> << >>]
Str(s) == [type |-> "string", chars |-> s]

(***************************************************************************)
(* validateTikZSyntax and the simulated rendering of renderTikZ            *)
(***************************************************************************)
\* faulty variant: the closing marker is checked first
validateTikZSyntaxEndFirst(code) ==
  (IF ~Includes(code, EndMarker) THEN <<MissingEnd>> ELSE << >>)
  \o (IF ~Includes(code, BeginMarker) THEN <<MissingBegin>> ELSE << >>)

validateTikZSyntax(code) ==
  (IF ~Includes(code, BeginMarker) THEN <<MissingBegin>> ELSE << >>)
  \o (IF ~Includes(code, EndMarker) THEN <<MissingEnd>> ELSE << >>)

\* faulty variant: the second keyword is spelt 'Bar'
simulatedSVGCapitalBar(code) ==
  IF Includes(code, KwRectangle) THEN RectangleSVG
  ELSE IF Includes(code, <<"B", "a", "r">>) THEN BarSVG
  ELSE IF Includes(code, KwMindmap) THEN MindmapSVG
  ELSE PreOpen \o code \o PreClose

\* faulty variant: 'bar' is tested before 'rectangle'
simulatedSVGBarFirst(code) ==
  IF Includes(code, KwBar) THEN BarSVG
  ELSE IF Includes(code, KwRectangle) THEN RectangleSVG
  ELSE IF Includes(code, KwMindmap) THEN MindmapSVG
  ELSE PreOpen \o code \o PreClose

\* the markup renderTikZ passes to setRenderedSVG once the check has passed
simulatedSVG(code) ==
  IF Includes(code, KwRectangle) THEN RectangleSVG
  ELSE IF Includes(code, KwBar) THEN BarSVG
  ELSE IF Includes(code, KwMindmap) THEN MindmapSVG
  ELSE PreOpen \o code \o PreClose

(***************************************************************************)
(* Objects: the values the templates cell can hold                         *)
(***************************************************************************)
Obj(props) == [type |-> "object", props |-> props]
EmptyObject == Obj(<< >>)
\* what JSON.parse can return besides an object
NullValue == [type |-> "null", props |-> << >>]
NumberValue == [type |-> "number", props |-> << >>]
EmptyArray == [type |-> "array", props |-> << >>]

defaultTemplates ==
  Obj(<< [k |-> RectangleWithCircleName, v |-> RectangleWithCircleCode],
         [k |-> BarGraphName, v |-> BarGraphCode],
         [k |-> OrganizationalChartName, v |-> OrganizationalChartCode] >>)

\* Object.keys(val) raises a TypeError for null
ObjectKeysThrows(val) == val.type = "null"
\* Object.keys(val): the own enumerable property names, in order (a number
\* and an empty array have none)
ObjectKeys(val) == [i \in 1..Len(val.props) |-> val.props[i].k]

HasOwn(val, name) == \E i \in 1..Len(val.props) : val.props[i].k = name
\* val[name] || '' for string-valued properties: the property's text, and
\* the empty string for a missing property (undefined) or an empty text
GetOrEmpty(val, name) ==
  IF HasOwn(val, name)
    THEN val.props[CHOOSE i \in 1..Len(val.props) : val.props[i].k = name].v
    ELSE << >>

\* faulty variant: an empty value removes the property
SetPropEmptyDeletes(props, name, value) ==
  IF value = << >>
    THEN SelectSeq(props, LAMBDA q : q.k # name)
  ELSE IF \E i \in 1..Len(props) : props[i].k = name
    THEN [i \in 1..Len(props) |->
            IF props[i].k = name THEN [k |-> name, v |-> value] ELSE props[i]]
    ELSE Append(props, [k |-> name, v |-> value])

\* defining property name on an object: an existing property keeps its
\* place and takes the new value, a new one goes last
SetProp(props, name, value) ==
  IF \E i \in 1..Len(props) : props[i].k = name
    THEN [i \in 1..Len(props) |->
            IF props[i].k = name THEN [k |-> name, v |-> value] ELSE props[i]]
    ELSE Append(props, [k |-> name, v |-> value])

\* faulty variant: the spread is forgotten
SpreadWithDropsRest(val, name, newCode) == Obj(<< [k |-> name, v |-> newCode] >>)

\* { ...val, [name]: newCode }
SpreadWith(val, name, newCode) == Obj(SetProp(val.props, name, newCode))

(***************************************************************************)
(* JSON.stringify and JSON.parse over token sequences                      *)
(***************************************************************************)
Tok(t, v) == [t |-> t, v |-> v]
LBrace == Tok("{", << >>)
RBrace == Tok("}", << >>)
LBracket == Tok("[", << >>)
RBracket == Tok("]", << >>)
Colon == Tok(":", << >>)
Comma == Tok(",", << >>)
NullTok == Tok("null", << >>)
NumTok == Tok("number", <<"5">>)
StrTok(escaped) == Tok("string", escaped)

\* faulty variant: a backslash is written as it is
EscapeCharNoBackslash(c) ==
  IF c = "\"" THEN <<"\\", "\"">>
  ELSE IF c = "\n" THEN <<"\\", "n">>
  ELSE <<c>>

\* QuoteJSONString, one character
EscapeChar(c) ==
  IF c = "\"" THEN <<"\\", "\"">>
  ELSE IF c = "\\" THEN <<"\\", "\\">>
  ELSE IF c = "\n" THEN <<"\\", "n">>
  ELSE <<c>>

\* QuoteJSONString over s[lo..hi], by halves
RECURSIVE EscapeRange(_, _, _)
EscapeRange(s, lo, hi) ==
  IF lo > hi THEN << >>
  ELSE IF lo = hi THEN EscapeChar(s[lo])
  ELSE LET mid == (lo + hi) \div 2
       IN  EscapeRange(s, lo, mid) \o EscapeRange(s, mid + 1, hi)

Escape(s) == EscapeRange(s, 1, Len(s))

\* position i of an escaped text starts an escape sequence: a backslash
\* that is not itself the second character of one
RECURSIVE IsLead(_, _)
IsLead(e, i) ==
  /\ i >= 1
  /\ e[i] = "\\"
  /\ ~IsLead(e, i - 1)

\* the characters JSON allows after a backslash (\u apart)
Escapable == {"\"", "\\", "/", "b", "f", "n", "r", "t"}

\* the character an escape stands for; U+0008 is written "<U+0008>"
UnescapeChar(c) ==
  IF c = "n" THEN "\n"
  ELSE IF c = "t" THEN "\t"
  ELSE IF c = "r" THEN "\r"
  ELSE IF c = "f" THEN "\f"
  ELSE IF c = "b" THEN "<U+0008>"
  ELSE c

\* the text between the quotes is well formed: no bare quote or line break,
\* and every backslash starts a known escape
ValidEscaped(e) ==
  \A i \in 1..Len(e) :
    IF IsLead(e, i) THEN i < Len(e) /\ e[i + 1] \in Escapable
    ELSE IsLead(e, i - 1) \/ e[i] \notin {"\"", "\n"}

RECURSIVE UnescapeRange(_, _, _)
UnescapeRange(e, lo, hi) ==
  IF lo > hi THEN << >>
  ELSE IF lo = hi
    THEN IF IsLead(e, lo) THEN << >>
         ELSE IF IsLead(e, lo - 1) THEN <<UnescapeChar(e[lo])>>
         ELSE <<e[lo]>>
  ELSE LET mid == (lo + hi) \div 2
       IN  UnescapeRange(e, lo, mid) \o UnescapeRange(e, mid + 1, hi)

Unescape(e) == UnescapeRange(e, 1, Len(e))

\* SerializeJSONObject for string-valued properties
RECURSIVE StringifyProps(_, _)
StringifyProps(props, i) ==
  IF i > Len(props) THEN << >>
  ELSE <<StrTok(Escape(props[i].k)), Colon, StrTok(Escape(props[i].v))>>
       \o (IF i < Len(props) THEN <<Comma>> ELSE << >>)
       \o StringifyProps(props, i + 1)

JSONstringify(obj) == <<LBrace>> \o StringifyProps(obj.props, 1) \o <<RBrace>>

\* the tokens are '{', then n >= 1 times  string ':' string  separated by
\* ',', then '}'
IsObjectText(toks) ==
  /\ Len(toks) >= 5
  /\ (Len(toks) - 1) % 4 = 0
  /\ toks[1] = LBrace
  /\ \A j \in 0..((Len(toks) - 1) \div 4 - 1) :
       /\ toks[4 * j + 2].t = "string" /\ ValidEscaped(toks[4 * j + 2].v)
       /\ toks[4 * j + 3] = Colon
       /\ toks[4 * j + 4].t = "string" /\ ValidEscaped(toks[4 * j + 4].v)
       /\ toks[4 * j + 5] = (IF 4 * j + 5 = Len(toks) THEN RBrace ELSE Comma)

\* the members of an object text, defined in order (a repeated name keeps
\* its first place and takes the last value)
RECURSIVE ParseProps(_, _, _)
ParseProps(toks, j, props) ==
  IF 4 * j + 5 > Len(toks) THEN props
  ELSE ParseProps(toks, j + 1,
         SetProp(props, Unescape(toks[4 * j + 2].v), Unescape(toks[4 * j + 4].v)))

\* JSON.parse: ok is FALSE where it raises a SyntaxError.  Covered: null, a
\* number, [], {} and an object of string members; any other token sequence
\* used in this module is not JSON
JSONparse(toks) ==
  IF toks = <<NullTok>> THEN [ok |-> TRUE, value |-> NullValue]
  ELSE IF toks = <<NumTok>> THEN [ok |-> TRUE, value |-> NumberValue]
  ELSE IF toks = <<LBracket, RBracket>> THEN [ok |-> TRUE, value |-> EmptyArray]
  ELSE IF toks = <<LBrace, RBrace>> THEN [ok |-> TRUE, value |-> EmptyObject]
  ELSE IF IsObjectText(toks)
    THEN [ok |-> TRUE, value |-> Obj(ParseProps(toks, 0, << >>))]
  ELSE [ok |-> FALSE, value |-> NullValue]

\* the entry 'tikzTemplates' of localStorage: getItem gives null or a string
NoItem == [type |-> "null", toks |-> << >>]
Item(toks) == [type |-> "string", toks |-> toks]
\* if (storedTemplates): null and the empty string are falsy
Truthy(stored) == stored.type = "string" /\ stored.toks # << >>

(***************************************************************************)
(* Bounds and inputs                                                       *)
(***************************************************************************)
\* page loads after the first one
MaxRestarts == 1
\* keyword pieces between the two ends of a text of PureTexts
MaxWords == 3

NewName == <<"X">>

\* texts typed into the editor
BothKeywords ==
  BeginMarker \o <<" ">> \o KwRectangle \o <<" ">> \o KwBar \o <<" ">> \o EndMarker
NoEnd == BeginMarker \o <<" ">> \o KwMindmap
NoBegin == KwBar \o EndMarker
Plain == BeginMarker \o <<"\\", "n", "o", "d", "e", " ", "\"", "a", "\"">> \o EndMarker
EditTexts == {BothKeywords, NoEnd, NoBegin}

\* arguments of handleTemplateChange and handleTemplateModification
SelectNames ==
  {RectangleWithCircleName, BarGraphName, OrganizationalChartName, NewName}
SaveArgs == {<<BarGraphName, Plain>>, <<NewName, Plain>>, <<NewName, << >> >>}

\* what the entry can hold when the page is first opened
CustomSnapshot == Obj(<< [k |-> BarGraphName, v |-> BothKeywords] >>)
Truncated == <<LBrace, StrTok(BarGraphName), Colon>>
BadEscape == <<LBrace, StrTok(NewName), Colon, StrTok(<<"\\", "d">>), RBrace>>
InitialStorage ==
  {NoItem, Item(<< >>), Item(Truncated), Item(BadEscape), Item(<<NullTok>>),
   Item(<<NumTok>>), Item(<<LBrace, RBrace>>),
   Item(JSONstringify(CustomSnapshot))}

(***************************************************************************)
(* State                                                                   *)
(***************************************************************************)
VARIABLES
  tikzCode,      \* useState(''): the text in the editor
  templates,     \* useState({}): the value the last render saw
  renderedSVG,   \* useState(null)
  error,         \* useState(null)
  localStorage,  \* the entry 'tikzTemplates'
  update,        \* the setTemplates call waiting for the next render
  pc,            \* what runs next: an effect, a render, or a handler
  event,         \* the last handler run, with its arguments
  stored0,       \* the entry as it was when the page was opened
  restarts       \* page loads so far

vars ==
  <<tikzCode, templates, renderedSVG, error, localStorage, update, pc, event,
    stored0, restarts>>

NoUpdate == [set |-> FALSE, value |-> EmptyObject]
SetTemplates(value) == [set |-> TRUE, value |-> value]
Event(op, name, text) == [op |-> op, name |-> name, text |-> text]

\* the component mounts: the four useState initial values, first render
\* committed, both effects waiting
Mounted(storage) ==
  /\ tikzCode = << >>
  /\ templates = EmptyObject
  /\ renderedSVG = Null
  /\ error = Null
  /\ localStorage = storage
  /\ update = NoUpdate
  /\ pc = "load"
  /\ event = Event("mount", << >>, << >>)
  /\ stored0 = storage

Init == \E storage \in InitialStorage : Mounted(storage) /\ restarts = 0

(***************************************************************************)
(* Effects                                                                 *)
(***************************************************************************)
\* faulty variant: the stored object is laid over the defaults
RECURSIVE MergeProps(_, _, _)
MergeProps(base, props, i) ==
  IF i > Len(props) THEN base
  ELSE MergeProps(SetProp(base, props[i].k, props[i].v), props, i + 1)

loadTemplatesMerged(storedTemplates) ==
  IF Truthy(storedTemplates)
    THEN LET parsed == JSONparse(storedTemplates.toks)
         IN  IF parsed.ok /\ parsed.value.type = "object"
               THEN [ok |-> TRUE,
                     value |-> Obj(MergeProps(defaultTemplates.props,
                                              parsed.value.props, 1))]
               ELSE parsed
    ELSE [ok |-> TRUE, value |-> defaultTemplates]

\* what the first effect passes to setTemplates for a value of getItem;
\* ok is FALSE where JSON.parse raises
loadTemplates(storedTemplates) ==
  IF Truthy(storedTemplates)
    THEN JSONparse(storedTemplates.toks)
    ELSE [ok |-> TRUE, value |-> defaultTemplates]

\* the first effect, run once after the first render; the error JSON.parse
\* raises is not caught and unmounts the component
LoadEffect ==
  /\ pc = "load"
  /\ LET loaded == loadTemplates(localStorage)
     IN  IF loaded.ok
           THEN update' = SetTemplates(loaded.value) /\ pc' = "persist"
           ELSE update' = update /\ pc' = "crashed"
  /\ UNCHANGED <<tikzCode, templates, renderedSVG, error, localStorage, event,
                 stored0, restarts>>

\* faulty variant: the effect writes only while the entry is missing
PersistEffectOnlyIfAbsent ==
  /\ pc = "persist"
  /\ IF Len(ObjectKeys(templates)) > 0 /\ localStorage = NoItem
       THEN localStorage' = Item(JSONstringify(templates))
       ELSE localStorage' = localStorage
  /\ pc' = IF update.set THEN "render" ELSE "idle"
  /\ UNCHANGED <<tikzCode, templates, renderedSVG, error, update, event,
                 stored0, restarts>>

\* faulty variant: the effect writes whatever templates holds
PersistEffectNoGuard ==
  /\ pc = "persist"
  /\ localStorage' = Item(JSONstringify(templates))
  /\ pc' = IF update.set THEN "render" ELSE "idle"
  /\ UNCHANGED <<tikzCode, templates, renderedSVG, error, update, event,
                 stored0, restarts>>

\* faulty variant: the effect never writes
PersistEffectNoWrite ==
  /\ pc = "persist"
  /\ pc' = IF update.set THEN "render" ELSE "idle"
  /\ UNCHANGED <<tikzCode, templates, renderedSVG, error, localStorage, update,
                 event, stored0, restarts>>

\* the second effect, run after every render that changed templates, with
\* the templates that render saw
PersistEffect ==
  /\ pc = "persist"
  /\ IF Len(ObjectKeys(templates)) > 0
       THEN localStorage' = Item(JSONstringify(templates))
       ELSE localStorage' = localStorage
  /\ pc' = IF update.set THEN "render" ELSE "idle"
  /\ UNCHANGED <<tikzCode, templates, renderedSVG, error, update, event,
                 stored0, restarts>>

\* the render that follows setTemplates: Object.keys(templates) in the JSX
\* raises for null, which unmounts the component
Rerender ==
  /\ pc = "render"
  /\ templates' = update.value
  /\ update' = NoUpdate
  /\ pc' = IF ObjectKeysThrows(update.value) THEN "crashed" ELSE "persist"
  /\ UNCHANGED <<tikzCode, renderedSVG, error, localStorage, event, stored0,
                 restarts>>

(***************************************************************************)
(* Handlers                                                                *)
(***************************************************************************)
\* faulty variant: the text is rendered even when the check fails
renderTikZIgnoresCheck ==
  /\ pc = "idle"
  /\ LET errors == validateTikZSyntax(tikzCode)
     IN  /\ error' = (IF Len(errors) > 0
                        THEN Str(Join(errors, CommaSpace)) ELSE Null)
         /\ renderedSVG' = Str(simulatedSVG(tikzCode))
  /\ event' = Event("renderTikZ", << >>, << >>)
  /\ UNCHANGED <<tikzCode, templates, localStorage, update, pc, stored0,
                 restarts>>

\* faulty variant: the preview is kept when the check fails
renderTikZKeepsPreview ==
  /\ pc = "idle"
  /\ LET errors == validateTikZSyntax(tikzCode)
     IN  IF Len(errors) > 0
           THEN /\ error' = Str(Join(errors, CommaSpace))
                /\ renderedSVG' = renderedSVG
           ELSE /\ error' = Null
                /\ renderedSVG' = Str(simulatedSVG(tikzCode))
  /\ event' = Event("renderTikZ", << >>, << >>)
  /\ UNCHANGED <<tikzCode, templates, localStorage, update, pc, stored0,
                 restarts>>

\* faulty variant: the error is kept when the check passes
renderTikZKeepsError ==
  /\ pc = "idle"
  /\ LET errors == validateTikZSyntax(tikzCode)
     IN  IF Len(errors) > 0
           THEN /\ error' = Str(Join(errors, CommaSpace))
                /\ renderedSVG' = Null
           ELSE /\ error' = error
                /\ renderedSVG' = Str(simulatedSVG(tikzCode))
  /\ event' = Event("renderTikZ", << >>, << >>)
  /\ UNCHANGED <<tikzCode, templates, localStorage, update, pc, stored0,
                 restarts>>

renderTikZ ==
  /\ pc = "idle"
  /\ LET errors == validateTikZSyntax(tikzCode)
     IN  IF Len(errors) > 0
           THEN /\ error' = Str(Join(errors, CommaSpace))
                /\ renderedSVG' = Null
           ELSE /\ error' = Null
                /\ renderedSVG' = Str(simulatedSVG(tikzCode))
  /\ event' = Event("renderTikZ", << >>, << >>)
  /\ UNCHANGED <<tikzCode, templates, localStorage, update, pc, stored0,
                 restarts>>

\* faulty variant: the preview markup is downloaded instead of the text
downloadCodePreview ==
  /\ pc = "idle"
  /\ event' = Event("downloadCode", DiagramTex, renderedSVG.chars)
  /\ UNCHANGED <<tikzCode, templates, renderedSVG, error, localStorage, update,
                 pc, stored0, restarts>>

\* FileDownload(tikzCode, 'diagram.tex'): the event records the call
downloadCode ==
  /\ pc = "idle"
  /\ event' = Event("downloadCode", DiagramTex, tikzCode)
  /\ UNCHANGED <<tikzCode, templates, renderedSVG, error, localStorage, update,
                 pc, stored0, restarts>>

\* faulty variant: choosing a template also clears the preview and the error
handleTemplateChangeClears(selectedTemplate) ==
  /\ pc = "idle"
  /\ tikzCode' = GetOrEmpty(templates, selectedTemplate)
  /\ renderedSVG' = Null
  /\ error' = Null
  /\ event' = Event("handleTemplateChange", selectedTemplate, << >>)
  /\ UNCHANGED <<templates, localStorage, update, pc, stored0, restarts>>

handleTemplateChange(selectedTemplate) ==
  /\ pc = "idle"
  /\ tikzCode' = GetOrEmpty(templates, selectedTemplate)
  /\ event' = Event("handleTemplateChange", selectedTemplate, << >>)
  /\ UNCHANGED <<templates, renderedSVG, error, localStorage, update, pc,
                 stored0, restarts>>

handleTemplateModification(name, newCode) ==
  /\ pc = "idle"
  /\ update' = SetTemplates(SpreadWith(templates, name, newCode))
  /\ pc' = "render"
  /\ event' = Event("handleTemplateModification", name, newCode)
  /\ UNCHANGED <<tikzCode, templates, renderedSVG, error, localStorage,
                 stored0, restarts>>

\* faulty variant: typing renders the new text at once
handleCodeChangeRenders(value) ==
  /\ pc = "idle"
  /\ tikzCode' = value
  /\ LET errors == validateTikZSyntax(value)
     IN  IF Len(errors) > 0
           THEN /\ error' = Str(Join(errors, CommaSpace))
                /\ renderedSVG' = Null
           ELSE /\ error' = Null
                /\ renderedSVG' = Str(simulatedSVG(value))
  /\ event' = Event("handleCodeChange", << >>, value)
  /\ UNCHANGED <<templates, localStorage, update, pc, stored0, restarts>>

handleCodeChange(value) ==
  /\ pc = "idle"
  /\ tikzCode' = value
  /\ event' = Event("handleCodeChange", << >>, value)
  /\ UNCHANGED <<templates, renderedSVG, error, localStorage, update, pc,
                 stored0, restarts>>

\* the page is loaded again: the component state is rebuilt, the entry stays
Restart ==
  /\ pc \in {"idle", "crashed"}
  /\ restarts < MaxRestarts
  /\ tikzCode' = << >>
  /\ templates' = EmptyObject
  /\ renderedSVG' = Null
  /\ error' = Null
  /\ update' = NoUpdate
  /\ pc' = "load"
  /\ event' = Event("mount", << >>, << >>)
  /\ stored0' = localStorage
  /\ restarts' = restarts + 1
  /\ UNCHANGED localStorage

Next ==
  \/ LoadEffect
  \/ PersistEffect
  \/ Rerender
  \/ renderTikZ
  \/ downloadCode
  \/ \E selectedTemplate \in SelectNames : handleTemplateChange(selectedTemplate)
  \/ \E args \in SaveArgs : handleTemplateModification(args[1], args[2])
  \/ \E value \in EditTexts : handleCodeChange(value)
  \/ Restart

Spec == Init /\ [][Next]_vars

(***************************************************************************)
(* The checker and the simulated rendering on their own: the page has      *)
(* loaded the defaults, the editor holds any text of PureTexts, and the    *)
(* text is rendered                                                        *)
(***************************************************************************)
Ends == {<< >>, BeginMarker, EndMarker}
Words ==
  {KwRectangle, KwBar, KwMindmap, <<"B", "a", "r">>, <<"r", "e", "c", "t">>,
   <<"a", "n", "g", "l", "e">>}

RECURSIVE Flatten(_)
Flatten(ws) == IF ws = << >> THEN << >> ELSE Head(ws) \o Flatten(Tail(ws))

PureTexts ==
  {pre \o Flatten(ws) \o post :
     pre \in Ends, post \in Ends,
     ws \in UNION {[1..n -> Words] : n \in 0..MaxWords}}

InitPure ==
  \E text \in PureTexts :
    /\ tikzCode = text
    /\ templates = defaultTemplates
    /\ renderedSVG = Null
    /\ error = Null
    /\ localStorage = Item(JSONstringify(defaultTemplates))
    /\ update = NoUpdate
    /\ pc = "idle"
    /\ event = Event("handleCodeChange", << >>, text)
    /\ stored0 = NoItem
    /\ restarts = 0

NextPure == renderTikZ

SpecPure == InitPure /\ [][NextPure]_vars

(***************************************************************************)
(* Properties                                                              *)
(***************************************************************************)
\* k occurs in s: from some position on, s reads k character by character
Occurs(k, s) ==
  \E i \in 1..(Len(s) + 1) :
    \A j \in 1..Len(k) : i + j - 1 <= Len(s) /\ s[i + j - 1] = k[j]

Range(seq) == {seq[i] : i \in 1..Len(seq)}
KeySet(val) == {val.props[i].k : i \in 1..Len(val.props)}

\* the entry is missing, or its text is not the JSON of an object
NotAMapping(stored) ==
  \/ stored.type = "null"
  \/ ~JSONparse(stored.toks).ok
  \/ JSONparse(stored.toks).value.type # "object"

\* the effects of the page load have run and no handler has run yet
StartupDone == pc = "idle" /\ event.op = "mount"

\* C1 (as claimed): whenever the entry was missing or was not the JSON of a
\* name-to-source object when the page was opened, loading does not fail
\* and the templates in memory are exactly the three defaults.
C1_LoadNeverFails ==
  NotAMapping(stored0) =>
    /\ pc # "crashed"
    /\ (StartupDone => templates = defaultTemplates)

\* C2 (as claimed): when the entry was missing or corrupt at startup, it
\* changes only in the persist effect that follows a
\* handleTemplateModification.
C2_NoWriteBeforeSave ==
  [][((stored0 = NoItem \/ ~loadTemplates(stored0).ok)
        /\ localStorage' # localStorage)
       => event.op = "handleTemplateModification"]_vars

\* C2 (amended): when the entry was missing or the empty string at startup,
\* then once the startup effects have run, and before any handler, the
\* entry has been written and reads back as exactly the default templates.
C2_DefaultsWrittenAtStartup ==
  (~Truthy(stored0) /\ StartupDone) =>
    /\ localStorage # stored0
    /\ Truthy(localStorage)
    /\ JSONparse(localStorage.toks) = [ok |-> TRUE, value |-> defaultTemplates]

C2_Witness ==
  /\ stored0 = NoItem
  /\ StartupDone
  /\ templates = defaultTemplates
  /\ localStorage.type = "string"

\* C3: in every reachable state, an error being shown implies that there
\* is no preview (and so a preview implies no error).
C3_ErrorImpliesNoPreview == error # Null => renderedSVG = Null

C3_Witness ==
  /\ event.op = "renderTikZ"
  /\ error.type = "string"
  /\ renderedSVG = Null
  /\ tikzCode # << >>

\* C4: a renderTikZ step leaves tikzCode alone; when the check of tikzCode
\* finds defects it sets error to the messages (opening before closing,
\* joined by ', ') and the preview to null; when it finds none it sets error
\* to null and the preview to the simulated rendering of tikzCode.
C4_Render ==
  [][(pc = "idle" /\ event'.op = "renderTikZ") =>
       LET missingBegin == ~Occurs(BeginMarker, tikzCode)
           missingEnd == ~Occurs(EndMarker, tikzCode)
       IN  /\ tikzCode' = tikzCode
           /\ (missingBegin /\ missingEnd) =>
                /\ error' = Str(MissingBegin \o CommaSpace \o MissingEnd)
                /\ renderedSVG' = Null
           /\ (missingBegin /\ ~missingEnd) =>
                error' = Str(MissingBegin) /\ renderedSVG' = Null
           /\ (~missingBegin /\ missingEnd) =>
                error' = Str(MissingEnd) /\ renderedSVG' = Null
           /\ (~missingBegin /\ ~missingEnd) =>
                /\ error' = Null
                /\ renderedSVG' = Str(simulatedSVG(tikzCode))
           /\ tikzCode = << >> => (missingBegin /\ missingEnd)]_vars

C4_Witness ==
  /\ event.op = "renderTikZ"
  /\ tikzCode = << >>
  /\ error = Str(MissingBegin \o CommaSpace \o MissingEnd)
  /\ renderedSVG = Null
  /\ templates # EmptyObject

\* C5: the simulated rendering of any text is the rectangle markup when
\* the text contains 'rectangle'; else the bar markup when it contains
\* 'bar'; else the mindmap markup when it contains 'mindmap'; else the text
\* between <pre> and </pre>; and a preview set by renderTikZ is that value.
C5_FirstMatchWins ==
  LET rect == Occurs(KwRectangle, tikzCode)
      bar == Occurs(KwBar, tikzCode)
      mind == Occurs(KwMindmap, tikzCode)
      out == simulatedSVG(tikzCode)
  IN  /\ rect => out = RectangleSVG
      /\ (~rect /\ bar) => out = BarSVG
      /\ (~rect /\ ~bar /\ mind) => out = MindmapSVG
      /\ (~rect /\ ~bar /\ ~mind) => out = PreOpen \o tikzCode \o PreClose
      /\ (event.op = "renderTikZ" /\ renderedSVG # Null) =>
           renderedSVG = Str(out)

C5_Witness ==
  /\ event.op = "renderTikZ"
  /\ Occurs(KwRectangle, tikzCode)
  /\ Occurs(KwBar, tikzCode)
  /\ Occurs(KwMindmap, tikzCode)
  /\ renderedSVG = Str(RectangleSVG)

\* C6: once handleTemplateModification(X, text) and the effects it causes
\* have run, what a fresh page load reads from the entry is an object in
\* which X is bound to exactly text.
C6_SaveThenLoad ==
  (pc = "idle" /\ event.op = "handleTemplateModification") =>
    LET loaded == loadTemplates(localStorage)
    IN  /\ loaded.ok
        /\ loaded.value.type = "object"
        /\ [k |-> event.name, v |-> event.text] \in Range(loaded.value.props)
        /\ \A q \in Range(loaded.value.props) :
             q.k = event.name => q.v = event.text

C6_Witness ==
  /\ pc = "idle"
  /\ event = Event("handleTemplateModification", NewName, Plain)
  /\ stored0.type = "string"
  /\ restarts > 0

\* C7: the object handleTemplateModification(name, newCode) passes to
\* setTemplates has the old names and name, each once; name is bound to
\* newCode and every other name keeps its binding.
C7_PutFrame ==
  [][(pc = "idle" /\ event'.op = "handleTemplateModification") =>
       LET new == update'.value
       IN  /\ update'.set
           /\ new.type = "object"
           /\ KeySet(new) = KeySet(templates) \cup {event'.name}
           /\ Len(new.props) = Cardinality(KeySet(new))
           /\ [k |-> event'.name, v |-> event'.text] \in Range(new.props)
           /\ \A q \in Range(templates.props) :
                q.k # event'.name => q \in Range(new.props)]_vars

C7_Witness ==
  /\ pc = "render"
  /\ event.op = "handleTemplateModification"
  /\ HasOwn(templates, event.name)
  /\ Len(templates.props) >= 3
  /\ Len(update.value.props) = Len(templates.props)
  /\ update.value # templates

C9_EditFrame ==
  [][(pc = "idle" /\ event'.op = "handleCodeChange") =>
       /\ tikzCode' = event'.text
       /\ UNCHANGED <<error, renderedSVG, templates, localStorage>>]_vars

C9_Witness ==
  /\ event.op = "handleCodeChange"
  /\ tikzCode = NoEnd
  /\ renderedSVG.type = "string"
  /\ error = Null

\* C10: for every text the check returns at most two messages: none
\* exactly when both markers occur, the opening message alone when only
\* the opening marker is missing, the closing message alone when only the
\* closing marker is missing, and the opening then the closing message when
\* both are missing; an error set by renderTikZ is these messages joined.
C10_CheckPresenceOnly ==
  LET hasBegin == Occurs(BeginMarker, tikzCode)
      hasEnd == Occurs(EndMarker, tikzCode)
      errors == validateTikZSyntax(tikzCode)
  IN  /\ Len(errors) \in 0..2
      /\ errors = << >> <=> (hasBegin /\ hasEnd)
      /\ (~hasBegin /\ hasEnd) => errors = <<MissingBegin>>
      /\ (hasBegin /\ ~hasEnd) => errors = <<MissingEnd>>
      /\ (~hasBegin /\ ~hasEnd) => errors = <<MissingBegin, MissingEnd>>
      /\ event.op = "renderTikZ" =>
           error = (IF errors = << >> THEN Null ELSE Str(Join(errors, CommaSpace)))

C10_Witness ==
  /\ event.op = "renderTikZ"
  /\ Occurs(EndMarker, tikzCode)
  /\ Occurs(KwBar, tikzCode)
  /\ error = Str(MissingBegin)

\* C11: every step that changes the entry starts in a state whose templates
\* have at least one name, and what it writes is not the empty object; so
\* the persist effect of the first render, which sees the empty initial
\* templates, leaves the entry as it was.
C11_NoWriteWhileEmpty ==
  [][localStorage' # localStorage =>
       /\ Len(templates.props) > 0
       /\ localStorage' # Item(<<LBrace, RBrace>>)
       /\ pc = "persist"]_vars

C11_Witness ==
  /\ pc = "render"
  /\ event.op = "mount"
  /\ templates = EmptyObject
  /\ update.set
  /\ stored0 = Item(JSONstringify(CustomSnapshot))
  /\ localStorage = stored0

\* C12: apart from the page being loaded again, no step removes a name
\* from templates: the names before the step are among the names after it.
C12_NeverDeleted ==
  [][pc' # "load" => KeySet(templates) \subseteq KeySet(templates')]_vars

C12_Witness ==
  /\ pc = "idle"
  /\ event = Event("handleTemplateModification", NewName, << >>)
  /\ KeySet(templates) =
       {RectangleWithCircleName, BarGraphName, OrganizationalChartName, NewName}
  /\ GetOrEmpty(templates, BarGraphName) = Plain

\* C13: a downloadCode step hands FileDownload the name 'diagram.tex' and
\* exactly the text the editor holds at that moment, and leaves tikzCode,
\* error, the preview, templates and the entry as they were.
C13_Export ==
  [][(pc = "idle" /\ event'.op = "downloadCode") =>
       /\ event'.name =
            <<"d", "i", "a", "g", "r", "a", "m", ".", "t", "e", "x">>
       /\ event'.text = tikzCode
       /\ UNCHANGED <<tikzCode, error, renderedSVG, templates, localStorage>>]_vars

\* a text with a defect, typed after a rendering and never rendered itself,
\* is what was downloaded
C13_Witness ==
  /\ event = Event("downloadCode", DiagramTex, NoEnd)
  /\ tikzCode = NoEnd
  /\ renderedSVG.type = "string"
  /\ error = Null

\* C14: when templates binds 'Bar Graph' to its default source, a
\* renderTikZ step that directly follows handleTemplateChange('Bar Graph')
\* ends with no error and with the bar markup as the preview, which is none
\* of the rectangle markup, the mindmap markup and the echoed text.
C14_BarGraphRoundTrip ==
  [][(/\ pc = "idle"
      /\ event = Event("handleTemplateChange", BarGraphName, << >>)
      /\ [k |-> BarGraphName, v |-> BarGraphCode] \in Range(templates.props)
      /\ event'.op = "renderTikZ") =>
       /\ error' = Null
       /\ renderedSVG' = Str(BarSVG)
       /\ renderedSVG'.chars \notin
            {RectangleSVG, MindmapSVG, PreOpen \o tikzCode \o PreClose}]_vars

C14_Witness ==
  /\ event.op = "renderTikZ"
  /\ tikzCode = BarGraphCode
  /\ templates = defaultTemplates
  /\ error = Null
  /\ renderedSVG = Str(BarSVG)

\* C15: in every state with no effect or render pending in which templates
\* has at least one name, the entry holds a text that JSON.parse reads as
\* exactly templates; in particular, after a handleTemplateModification it
\* holds the binding of that last call.
C15_PersistenceTracksMemory ==
  []((pc = "idle" /\ Len(ObjectKeys(templates)) > 0) =>
       /\ Truthy(localStorage)
       /\ JSONparse(localStorage.toks) = [ok |-> TRUE, value |-> templates]
       /\ event.op = "handleTemplateModification" =>
            \E i \in 1..Len(localStorage.toks) - 2 :
              /\ localStorage.toks[i] = StrTok(Escape(event.name))
              /\ localStorage.toks[i + 1] = Colon
              /\ localStorage.toks[i + 2] = StrTok(Escape(event.text)))

\* two calls have overwritten 'Bar Graph' and then bound and rebound a new
\* name; the entry differs from the one the page was opened with
C15_Witness ==
  /\ pc = "idle"
  /\ event = Event("handleTemplateModification", NewName, << >>)
  /\ GetOrEmpty(templates, BarGraphName) = Plain
  /\ HasOwn(templates, NewName)
  /\ localStorage # stored0
  /\ stored0 = Item(JSONstringify(CustomSnapshot))

\* C16: a preview is put in place only by a renderTikZ step, from a text in
\* which both markers occur, as the simulated rendering of that text; and
\* between two page loads no other step changes the preview or the error.
\* So a preview on show is the rendering of the text of the latest
\* renderTikZ, which had no defects, whatever the editor holds now.
C16_PreviewProvenance ==
  [][/\ (pc = "idle" /\ event'.op = "renderTikZ" /\ renderedSVG' # Null) =>
          /\ Occurs(BeginMarker, tikzCode)
          /\ Occurs(EndMarker, tikzCode)
          /\ renderedSVG' = Str(simulatedSVG(tikzCode))
          /\ error' = Null
     /\ (~(pc = "idle" /\ event'.op = "renderTikZ") /\ pc' # "load") =>
          UNCHANGED <<renderedSVG, error>>]_vars

\* a stale preview: the text chosen after the rendering would render
\* differently
C16_Witness ==
  /\ event.op = "handleTemplateChange"
  /\ renderedSVG = Str(RectangleSVG)
  /\ validateTikZSyntax(tikzCode) = << >>
  /\ simulatedSVG(tikzCode) = MindmapSVG

\* the names that stand before a ':' in a JSON text
NamesIn(toks) ==
  {Unescape(toks[i].v) :
     i \in {j \in 1..(Len(toks) - 1) : toks[j].t = "string" /\ toks[j + 1] = Colon}}

\* C17: when the entry held the JSON of an object as the page was opened,
\* then once the startup effects have run templates is exactly that object:
\* its names are the names of the text, no default is added, and a default
\* name the text rebinds carries the text's source; and choosing a name the
\* store lacks, a missing default among them, empties the editor.
C17_LoadedAsStored ==
  /\ (StartupDone /\ ~NotAMapping(stored0)) =>
       /\ templates = JSONparse(stored0.toks).value
       /\ KeySet(templates) = NamesIn(stored0.toks)
       /\ stored0 = Item(JSONstringify(CustomSnapshot)) =>
            templates.props = << [k |-> BarGraphName, v |-> BothKeywords] >>
  /\ (pc = "idle" /\ event.op = "handleTemplateChange"
        /\ event.name \notin KeySet(templates) /\ ~NotAMapping(stored0)) =>
       tikzCode = << >>

\* the page was opened on a snapshot without 'Rectangle with Circle', and
\* choosing that name left the editor empty
C17_Witness ==
  /\ stored0 = Item(JSONstringify(CustomSnapshot))
  /\ restarts = 0
  /\ templates = CustomSnapshot
  /\ GetOrEmpty(templates, BarGraphName) # BarGraphCode
  /\ event = Event("handleTemplateChange", RectangleWithCircleName, << >>)
  /\ tikzCode = << >>
  /\ renderedSVG # Null
====
